---- MODULE Spec2Model ----
(***************************************************************************)
(* Wind-turbine monitoring dashboard: the synthetic telemetry generator    *)
(* (src/unnamed/part_001, imported as "@/lib/mockData") and the page that  *)
(* drives it (Home, second half of src/components/Sidebar.tsx).            *)
(*                                                                         *)
(* Numbers.  The source computes in IEEE-754 doubles; the model computes   *)
(* in integers at fixed resolutions:                                       *)
(*   - a wind speed is a record [t, lo]: t counts tenths of a m/s and lo   *)
(*     says that the double lies just below t/10 (see Literal41);          *)
(*   - a power is an integer number of 1/PowerScale kW, the resolution at  *)
(*     which expectedPower, minPower and maxPower of every swept wind      *)
(*     speed are exact; a stored (rounded) power counts tenths of a kW;    *)
(*   - an efficiency multiplier counts millionths;                         *)
(*   - a Math.random() outcome counts thousandths (0..999).                *)
(***************************************************************************)
EXTENDS Integers, Sequences, FiniteSets, TLC

VARIABLES
    epWind,        \* argument of the last calculateExpectedPower call
    epPower,       \* its result, NoValue before the first call
    pcUnitId,      \* generatePowerCurveData: unitId of the last call
    pcNumPoints,   \* its numPoints argument
    pcTape,        \* the Math.random() outcomes it consumed
    pcData,        \* the array it returned, << >> before the first call
    pcCalls,       \* calls made so far, counted up to MaxCalls
    selectedUnitId,      \* Home: useState(1)
    currentTime,         \* Home: useState(0)
    isMounted,           \* Home: useState(false)
    correlationFactors,  \* Home: useState<CorrelationFactor[]>([])
    phase,         \* "render": state changed, render and commit pending;
                   \* "effects": committed, effects pending; "idle"
    view,          \* state as of the last commit: what the effects' and the
                   \* interval's closures captured and what the charts show
    effDeps,       \* dependency values each effect last ran with
    timers,        \* armed intervals, each the closure of its callback
    effTimer,      \* the interval the interval effect's cleanup will clear
    clock,         \* Date.now() in seconds since the page was loaded
    ticks,         \* interval callbacks run so far (bounded by MaxTicks)
    selects,       \* sidebar clicks so far (bounded by MaxSelects)
    dsFactor,      \* generateDistributionData: argument factor
    dsUnitId,      \* generateDistributionData: argument unitId
    dsLocal,       \* its locals referenceMean .. actualStdDev before the return
    dsData         \* the DistributionData it returned

epVars == <<epWind, epPower>>
pcVars == <<pcUnitId, pcNumPoints, pcTape, pcData, pcCalls>>
homeVars == <<selectedUnitId, currentTime, isMounted, correlationFactors,
              phase, view, effDeps, timers, effTimer, clock, ticks, selects>>
dsVars == <<dsFactor, dsUnitId, dsLocal, dsData>>
vars == <<epVars, pcVars, homeVars, dsVars>>

----------------------------------------------------------------------------
(* Bounds of the model *)

\* Largest wind speed, in m/s, handed to calculateExpectedPower.
MaxWind == 27
\* pcCalls stops counting here.
MaxCalls == 2
\* Interval callbacks and sidebar clicks in one session.
MaxTicks == 2
MaxSelects == 1

----------------------------------------------------------------------------
(* Resolutions *)

\* Wind speeds are carried in units of the sweep's finest step, 0.1 m/s.
WsScale == 10
\* Units per kW: (10 * (ratedSpeed - cutInSpeed))^3 / 100, so that
\* ratedPower * ((w - 3) / 9)^3 is an integer for every w in tenths.
PowerScale == 7290
\* Efficiency multipliers (0.85, 0.98 + random * 0.02, ...) in millionths.
EffScale == 1000000
\* Math.random() outcomes in 1/1000: a term `random * c` is c * r millionths.
RandScale == 1000

NoValue == 0 - 1

Min(a, b) == IF a <= b THEN a ELSE b
Max(a, b) == IF a >= b THEN a ELSE b
Abs(a) == IF a < 0 THEN 0 - a ELSE a

\* floor(a * b / c) for a, b >= 0, c > 0, without an intermediate product
\* beyond 32 bits (needs c * b < 2^31).
MulDiv(a, b, c) == (a \div c) * b + ((a % c) * b) \div c

\* x * m / EffScale, to the nearest unit: a power times an efficiency
\* multiplier.  The multiplier is split into thousandths (mh) and the rest
\* (ml) to keep every product within 32 bits.  `lo` says that the double x
\* stands for lies just below x (it was computed from a lo wind speed): a
\* product halfway between two units then goes down, otherwise up.
Times(x, m, lo) ==
    LET mh == m \div 1000
        ml == m % 1000
        half == IF lo THEN EffScale \div 2 - 1 ELSE EffScale \div 2
    IN  (x \div 1000) * mh + (x \div EffScale) * ml
        + (((x % 1000) * mh) * 1000 + (x % EffScale) * ml + half)
              \div EffScale

\* Math.round(x * 10) / 10 of a power: the result counts tenths of a kW.
Round1(x) == (2 * x + PowerScale \div 10) \div (2 * (PowerScale \div 10))

----------------------------------------------------------------------------
(* Wind speeds as doubles *)

Ws(t) == [t |-> t, lo |-> FALSE]

\* ws < k, ws <= k, ws >= k, ws > k for a threshold of k tenths.
WsLt(ws, k) == ws.t < k \/ (ws.t = k /\ ws.lo)
WsLe(ws, k) == ws.t <= k
WsGe(ws, k) == ~WsLt(ws, k)
WsGt(ws, k) == ~WsLe(ws, k)

----------------------------------------------------------------------------
(* calculateExpectedPower *)

CutInSpeed == 3
RatedSpeed == 12
CutOutSpeed == 25
RatedPower == 2000

\* Mutants of CalculateExpectedPower.
CalculateExpectedPower_CutOutLate(ws) ==
    IF WsLt(ws, CutInSpeed * WsScale) THEN 0
    ELSE IF WsGt(ws, CutOutSpeed * WsScale) THEN 0
    ELSE IF WsGe(ws, RatedSpeed * WsScale) THEN RatedPower * PowerScale
    ELSE LET n == ws.t - CutInSpeed * WsScale
         IN  (RatedPower * n * n * n) \div 100

CalculateExpectedPower_Square(ws) ==
    IF WsLt(ws, CutInSpeed * WsScale) THEN 0
    ELSE IF WsGe(ws, CutOutSpeed * WsScale) THEN 0
    ELSE IF WsGe(ws, RatedSpeed * WsScale) THEN RatedPower * PowerScale
    ELSE LET n == ws.t - CutInSpeed * WsScale
             d == (RatedSpeed - CutInSpeed) * WsScale
         IN  MulDiv(RatedPower * n * n, PowerScale, d * d)

\* ratedPower * ((w - cutIn) / (rated - cutIn))^3 in 1/PowerScale kW is
\* ratedPower * n^3 * PowerScale / 90^3 = ratedPower * n^3 / 100, n = 10w - 30.
\* For a lo wind speed the double is below this by less than 1e-9 kW.
CalculateExpectedPower(ws) ==
    IF WsLt(ws, CutInSpeed * WsScale) THEN 0
    ELSE IF WsGe(ws, CutOutSpeed * WsScale) THEN 0
    ELSE IF WsGe(ws, RatedSpeed * WsScale) THEN RatedPower * PowerScale
    ELSE LET n == ws.t - CutInSpeed * WsScale
             d == (RatedSpeed - CutInSpeed) * WsScale
         IN  (RatedPower * n * n * n) \div ((d * d * d) \div PowerScale)

----------------------------------------------------------------------------
(* Specification of the calculateExpectedPower calls *)

WindInputs == { [t |-> t, lo |-> b] : t \in 0 .. MaxWind * WsScale, b \in BOOLEAN }

EPInit ==
    /\ epWind = Ws(0)
    /\ epPower = NoValue

PCIdle ==
    /\ pcUnitId = 1
    /\ pcNumPoints = 200
    /\ pcTape = 0
    /\ pcData = << >>
    /\ pcCalls = 0

\* generateDistributionData not yet called.
DSIdle ==
    /\ dsFactor = [called |-> FALSE]
    /\ dsUnitId = 1
    /\ dsLocal = [called |-> FALSE]
    /\ dsData = [called |-> FALSE]

\* Home before its first render.
HomeInit ==
    /\ selectedUnitId = 1
    /\ currentTime = 0
    /\ isMounted = FALSE
    /\ correlationFactors = << >>
    /\ phase = "render"
    /\ view = [mounted |-> FALSE]
    /\ effDeps = [mounted |-> FALSE]
    /\ timers = {}
    /\ effTimer = [armed |-> FALSE]
    /\ clock = 0
    /\ ticks = 0
    /\ selects = 0

ExpectedPowerCall ==
    /\ \E ws \in WindInputs :
          /\ epWind' = ws
          /\ epPower' = CalculateExpectedPower(ws)
    /\ UNCHANGED <<pcVars, homeVars, dsVars>>

InitEP == EPInit /\ PCIdle /\ HomeInit /\ DSIdle
SpecEP == InitEP /\ [][ExpectedPowerCall]_vars

----------------------------------------------------------------------------
(* Claims about calculateExpectedPower, under SpecEP *)

\* ws lies in [3, 12]; a <= b on wind speeds.
OnRamp(ws) == WsGe(ws, 30) /\ WsLe(ws, 120)
WsLeq(a, b) == a.t < b.t \/ (a.t = b.t /\ (a.lo \/ ~b.lo))

\* C1: for every wind speed w, expectedPower(w) is 0 when w < 3 or w >= 25,
\* is 2000 kW when 12 <= w < 25, is 0 at exactly 3 and 2000 at exactly 12,
\* and of two calls with arguments in [3, 12] the one with the larger
\* argument never returns less.
C1_ExpectedPowerShape ==
    /\ [](epPower # NoValue =>
            /\ (WsLt(epWind, 30) \/ WsGe(epWind, 250)) => epPower = 0
            /\ (WsGe(epWind, 120) /\ WsLt(epWind, 250)) => epPower = 2000 * PowerScale
            /\ epWind = Ws(30) => epPower = 0
            /\ epWind = Ws(120) => epPower = 2000 * PowerScale)
    /\ [][(/\ epPower # NoValue
           /\ OnRamp(epWind) /\ OnRamp(epWind')
           /\ WsLeq(epWind, epWind')) => epPower <= epPower']_vars

\* A call inside the ramp has returned a power strictly between 0 and rated.
C1_Witness ==
    /\ epWind = Ws(110)
    /\ epPower > 0
    /\ epPower < 2000 * PowerScale

\* C2 as stated: expectedPower(7.5) is about 216.4 kW (216.4 to one decimal).
C2_Original ==
    (epWind = Ws(75) /\ epPower # NoValue) => Round1(epPower) = 2164

\* C2, amended: expectedPower(7.5) = 2000 * ((7.5 - 3) / 9)^3 = 2000 / 8,
\* which is exactly 250 kW.
C2_ExpectedPowerAt75 ==
    (epWind = Ws(75) /\ epPower # NoValue) =>
        /\ epPower * 8 = 2000 * PowerScale
        /\ Round1(epPower) = 2500

C2_Witness == epWind = Ws(75) /\ epPower # NoValue

----------------------------------------------------------------------------
(* generatePowerCurveData: the wind-speed sweep *)

\* The double nearest to the literal 4.1 is 4.0999999999999996..., and every
\* sum the loop `for (ws = 4.1; ws <= 11; ws += 0.1)` forms stays below the
\* decimal it stands for (the 70th is 10.999999999999975): lo is TRUE on the
\* whole of zone B.  Multiples of 0.5 are exact doubles: lo is FALSE.
Literal41 == [t |-> 41, lo |-> TRUE]

\* ws += step, step in tenths.
WsAdd(ws, step) == [t |-> ws.t + step, lo |-> ws.lo]

\* for (let ws = from; ws <= limit; ws += step) windSpeeds.push(ws)
RECURSIVE ZoneLoop(_, _, _)
ZoneLoop(ws, limit, step) ==
    IF WsLe(ws, limit)
    THEN <<ws>> \o ZoneLoop(WsAdd(ws, step), limit, step)
    ELSE << >>

WindSpeeds ==
    ZoneLoop(Ws(0), 4 * WsScale, 5)
    \o ZoneLoop(Literal41, 11 * WsScale, 1)
    \o ZoneLoop(Ws(115), 25 * WsScale, 5)

----------------------------------------------------------------------------
(* generatePowerCurveData: Math.random, Math.sin, Math.exp *)

\* Outcomes of Math.random() the model draws, in thousandths: both ends of
\* [0, 1) and one interior value.
RandomLevels == <<0, 740, 999>>

\* A tape is the sequence of outcomes one call consumes: tape s gives the
\* i-th sample RandomLevels[s + i], indices cyclic, so that every sample
\* meets every level under some tape.
Tapes == 0 .. Len(RandomLevels) - 1
Draw(tape, i) == RandomLevels[((tape + i) % Len(RandomLevels)) + 1]

\* Math.sin(k / 70 * Math.PI) in millionths, rounded, for k = 0 .. 70.
SinTable ==
    <<0, 44865, 89639, 134233, 178557, 222521, 266037, 309017, 351375,
      393025, 433884, 473869, 512899, 550897, 587785, 623490, 657939,
      691063, 722795, 753071, 781831, 809017, 834573, 858449, 880596,
      900969, 919528, 936235, 951057, 963963, 974928, 983930, 990950,
      995974, 998993, 1000000, 998993, 995974, 990950, 983930, 974928,
      963963, 951057, 936235, 919528, 900969, 880596, 858449, 834573,
      809017, 781831, 753071, 722795, 691063, 657939, 623490, 587785,
      550897, 512899, 473869, 433884, 393025, 351375, 309017, 266037,
      222521, 178557, 134233, 89639, 44865, 0>>

\* Math.exp(-8 * (d / 12)^2) in millionths, rounded, for a distance of d tenths.
ExpTable ==
    <<1000000, 945959, 800737, 606531, 411112, 249352, 135335, 65729,
      28566, 11109, 3866, 1204, 335>>

\* const dipCycle = Math.sin(rampProgress * Math.PI), rampProgress = (ws - 4) / 7
DipCycle(ws) == SinTable[(ws.t - 4 * WsScale) + 1]

\* rampProgress > 0.7: (t - 40) / 70 > 7 / 10, and a lo wind speed on the
\* boundary lies below it.
RampPast70(ws) == ws.t - 4 * WsScale > 49

\* (rampProgress - 0.7) / 0.3 * 0.15 in millionths: 150000 * (t - 89) / 21.
RecoveryGain(ws) == (150000 * (ws.t - 4 * WsScale - 49)) \div 21

----------------------------------------------------------------------------
(* generatePowerCurveData: actualPower per profile; r is the sample's draw *)

\* Mutant of ZoneAPower: noise of 0.2 in place of 0.02 and no cap.
ZoneAPower_WideNoise(e, r) == Times(e, 980000 + 200 * r, FALSE)

\* Units 1-5 above 11 m/s: 98-100% of expected, capped at expected.
ZoneAPower(e, r) ==
    Min(Times(e, 980000 + 20 * r, FALSE), e)

\* Unit 4 within 4-11 m/s: deep dip and sharp recovery.
WarningRampPower(ws, e, minP, maxP, r) ==
    LET dip == DipCycle(ws)
        baseEfficiency == 750000 + (EffScale - dip) \div 5
        randomVariation == 30 * r
        a1 == Times(e, baseEfficiency + randomVariation, ws.lo)
        a2 == Min(a1, Times(maxP, 980000, ws.lo))
        a3 == IF dip > 500000 THEN Min(a2, Times(minP, 880000, ws.lo)) ELSE a2
    IN  IF RampPast70(ws)
        THEN Max(a3, Times(e, 800000 + RecoveryGain(ws), ws.lo))
        ELSE a3

\* Mutant of NormalRampPower: the dip is clamped to 0.82 of minPower in
\* place of 1.02.
NormalRampPower_DeepDip(ws, e, minP, maxP, r) ==
    LET dip == DipCycle(ws)
        baseEfficiency == 880000 + (7 * (EffScale - dip)) \div 100
        randomVariation == 30 * r
        a1 == Times(e, baseEfficiency + randomVariation, ws.lo)
        a2 == Min(a1, Times(maxP, 980000, ws.lo))
    IN  IF dip > 500000 THEN Min(a2, Times(minP, 820000, ws.lo)) ELSE a2

\* Units 1, 2, 3, 5 within 4-11 m/s: gentle dip.
NormalRampPower(ws, e, minP, maxP, r) ==
    LET dip == DipCycle(ws)
        baseEfficiency == 880000 + (7 * (EffScale - dip)) \div 100
        randomVariation == 30 * r
        a1 == Times(e, baseEfficiency + randomVariation, ws.lo)
        a2 == Min(a1, Times(maxP, 980000, ws.lo))
    IN  IF dip > 500000 THEN Min(a2, Times(minP, 1020000, ws.lo)) ELSE a2

\* Units 1-5 below 4 m/s: 85-95% efficiency.
ZoneCPower(e, r) == Times(e, 850000 + 100 * r, FALSE)

SpikePositions == <<65, 100, 135, 170, 205>>

\* Math.abs(windSpeed - spikePos) < 1.2: a lo wind speed 1.2 above the
\* position is inside the window, one 1.2 below it is outside.
NearSpike(ws, pos) ==
    \/ Abs(ws.t - pos) < 12
    \/ ws.t - pos = 12 /\ ws.lo

\* Index of the first spike position the loop breaks on, 0 when none.
SpikeIndex(ws) ==
    IF \E i \in 1 .. Len(SpikePositions) : NearSpike(ws, SpikePositions[i])
    THEN CHOOSE i \in 1 .. Len(SpikePositions) :
            /\ NearSpike(ws, SpikePositions[i])
            /\ \A j \in 1 .. i - 1 : ~NearSpike(ws, SpikePositions[j])
    ELSE 0

\* Mutant of CriticalPower: a spike recovers to 100-115% of minPower.
CriticalPower_FullRecovery(ws, minP, r) ==
    LET baselineLow == Times(minP, 450000, ws.lo)
        i == SpikeIndex(ws)
    IN  IF i # 0
        THEN LET spikeStrength == ExpTable[Abs(ws.t - SpikePositions[i]) + 1]
                 maxSpikeHeight == Times(minP, 1000000 + 150 * r, ws.lo)
             IN  baselineLow + Times(maxSpikeHeight - baselineLow, spikeStrength, ws.lo)
        ELSE Times(baselineLow, 850000 + 300 * r, ws.lo)

\* Unit 6: low baseline with five failed recovery spikes.
CriticalPower(ws, minP, r) ==
    LET baselineLow == Times(minP, 450000, ws.lo)
        i == SpikeIndex(ws)
    IN  IF i # 0
        THEN LET spikeStrength == ExpTable[Abs(ws.t - SpikePositions[i]) + 1]
                 maxSpikeHeight == Times(minP, 700000 + 150 * r, ws.lo)
             IN  baselineLow + Times(maxSpikeHeight - baselineLow, spikeStrength, ws.lo)
        ELSE Times(baselineLow, 850000 + 300 * r, ws.lo)

\* The value of `actualPower` before data.push: NoValue when undefined.
ActualPower(unitId, ws, e, minP, maxP, r) ==
    IF WsGe(ws, 3 * WsScale) /\ WsLe(ws, 25 * WsScale)
    THEN IF unitId # 6
         THEN IF WsGt(ws, 11 * WsScale) THEN ZoneAPower(e, r)
              ELSE IF WsGe(ws, 4 * WsScale) /\ WsLe(ws, 11 * WsScale)
                   THEN IF unitId = 4
                        THEN WarningRampPower(ws, e, minP, maxP, r)
                        ELSE NormalRampPower(ws, e, minP, maxP, r)
                   ELSE ZoneCPower(e, r)
         ELSE CriticalPower(ws, minP, r)
    ELSE NoValue

\* actualPower ? Math.round(actualPower * 10) / 10 : undefined
\* (undefined and 0 are both falsy).
StoredActual(a) == IF a # NoValue /\ a # 0 THEN Round1(a) ELSE NoValue

\* Mutant of PowerCurveSample: the band is derived from the rounded
\* expectedPower.
PowerCurveSample_RoundedFirst(unitId, numPoints, ws, r) ==
    LET expectedPower == CalculateExpectedPower(ws)
        stored == Round1(expectedPower) * (PowerScale \div 10)
        minPower == (stored * 85) \div 100
        maxPower == (stored * 105) \div 100
        actualPower == ActualPower(unitId, ws, expectedPower, minPower, maxPower, r)
    IN  [ windSpeed |-> ws.t * 10,
          actualPower |-> StoredActual(actualPower),
          minPower |-> Round1(minPower),
          maxPower |-> Round1(maxPower),
          expectedPower |-> Round1(expectedPower),
          timestamp |-> (numPoints * WsScale - ws.t * 4) * 30000 ]

\* Mutant of PowerCurveSample: the critical unit's expected power is derated.
PowerCurveSample_Derated(unitId, numPoints, ws, r) ==
    LET rated == CalculateExpectedPower(ws)
        expectedPower == IF unitId = 6 THEN (rated * 80) \div 100 ELSE rated
        minPower == (expectedPower * 85) \div 100
        maxPower == (expectedPower * 105) \div 100
        actualPower == ActualPower(unitId, ws, expectedPower, minPower, maxPower, r)
    IN  [ windSpeed |-> ws.t * 10,
          actualPower |-> StoredActual(actualPower),
          minPower |-> Round1(minPower),
          maxPower |-> Round1(maxPower),
          expectedPower |-> Round1(expectedPower),
          timestamp |-> (numPoints * WsScale - ws.t * 4) * 30000 ]

\* One iteration of windSpeeds.forEach: the record pushed onto data.
\* windSpeed is stored in hundredths of a m/s, the powers in tenths of a kW,
\* timestamp as the milliseconds it lies before `now`.
PowerCurveSample(unitId, numPoints, ws, r) ==
    LET expectedPower == CalculateExpectedPower(ws)
        minPower == (expectedPower * 85) \div 100
        maxPower == (expectedPower * 105) \div 100
        actualPower == ActualPower(unitId, ws, expectedPower, minPower, maxPower, r)
    IN  [ windSpeed |-> ws.t * 10,
          actualPower |-> StoredActual(actualPower),
          minPower |-> Round1(minPower),
          maxPower |-> Round1(maxPower),
          expectedPower |-> Round1(expectedPower),
          timestamp |-> (numPoints * WsScale - ws.t * 4) * 30000 ]

GeneratePowerCurveData(unitId, numPoints, tape) ==
    [ i \in 1 .. Len(WindSpeeds) |->
        PowerCurveSample(unitId, numPoints, WindSpeeds[i], Draw(tape, i)) ]

----------------------------------------------------------------------------
(* Specification of the generatePowerCurveData calls *)

\* The six registered units and one id outside the registry.
UnitIds == 1 .. 6
CallUnitIds == UnitIds \cup {7}
PointHints == {100, 200, 300}

GenerateCall ==
    /\ \E u \in CallUnitIds, n \in PointHints, tape \in Tapes :
          /\ pcUnitId' = u
          /\ pcNumPoints' = n
          /\ pcTape' = tape
          /\ pcData' = GeneratePowerCurveData(u, n, tape)
    /\ pcCalls' = Min(pcCalls + 1, MaxCalls)
    /\ UNCHANGED <<epVars, homeVars, dsVars>>

InitPC == EPInit /\ PCIdle /\ HomeInit /\ DSIdle
SpecPC == InitPC /\ [][GenerateCall]_vars

----------------------------------------------------------------------------
(* Correlation factors.  A value or a deviation counts thousandths of the   *)
(* factor's unit, a deviationScore counts tenths of a percent, a time       *)
(* counts seconds.                                                          *)

FScale == 1000

\* Math.round(x * 10) / 10 of a value or deviation, x >= 0.
RoundTenth(x) == ((x + 50) \div 100) * 100

\* Mutant of CriticalDraw: an anomaly takes the wind speed to 1-3 m/s.
CriticalDraw_WindStall(id, isAnomaly, r, fallback) ==
    CASE id = "pitch" -> IF isAnomaly THEN 20 * FScale + 8 * r ELSE 12 * FScale + 8 * r
      [] id = "rotor" -> IF isAnomaly THEN 6 * FScale + 3 * r ELSE 11 * FScale + 4 * r
      [] id = "generator" -> 85 * FScale + 10 * r
      [] id = "windSpeed" -> IF isAnomaly THEN 1 * FScale + 2 * r ELSE 6 * FScale + 3 * r
      [] OTHER -> fallback

\* isCritical branch of generateInitialHistory / generateNextDataPoint:
\* r is the outcome of the value's Math.random().
CriticalDraw(id, isAnomaly, r, fallback) ==
    CASE id = "pitch" -> IF isAnomaly THEN 20 * FScale + 8 * r ELSE 12 * FScale + 8 * r
      [] id = "rotor" -> IF isAnomaly THEN 6 * FScale + 3 * r ELSE 11 * FScale + 4 * r
      [] id = "generator" -> 85 * FScale + 10 * r
      [] id = "windSpeed" -> IF isAnomaly THEN 5 * FScale + 2 * r ELSE 6 * FScale + 3 * r
      [] OTHER -> fallback

NormalDraw(id, r, fallback) ==
    CASE id = "pitch" -> 2 * FScale + 3 * r
      [] id = "rotor" -> 14 * FScale + 4 * r
      [] id = "generator" -> 68 * FScale + 6 * r
      [] id = "windSpeed" -> 9 * FScale + 4 * r
      [] OTHER -> fallback

\* const isAnomaly = Math.random() > 0.7
IsAnomaly(r) == r > 700

\* Mutant of Deviation: a value below the range does not deviate.
Deviation_AboveOnly(value, normalRange) ==
    IF value > normalRange.max * FScale THEN value - normalRange.max * FScale
    ELSE 0

\* The unrounded deviation of a value from a normal range.
Deviation(value, normalRange) ==
    IF value < normalRange.min * FScale THEN normalRange.min * FScale - value
    ELSE IF value > normalRange.max * FScale THEN value - normalRange.max * FScale
    ELSE 0

\* Mutant of DeviationScore: no Math.min(100, ...).
DeviationScore_Uncapped(deviation, normalRange) ==
    LET rangeWidth == normalRange.max - normalRange.min
    IN  (Abs(deviation) * 100 + 50 * rangeWidth) \div (100 * rangeWidth)

\* Math.round(Math.min(100, Math.abs(deviation) / rangeWidth * 100) * 10) / 10
DeviationScore(deviation, normalRange) ==
    LET rangeWidth == normalRange.max - normalRange.min
        capped == Min(100 * FScale * rangeWidth, Abs(deviation) * 100)
    IN  (capped + 50 * rangeWidth) \div (100 * rangeWidth)

CalculateInitialDeviation(value, normalRange) ==
    LET deviation == Deviation(value, normalRange)
    IN  [ deviation |-> RoundTenth(deviation),
          deviationScore |-> DeviationScore(deviation, normalRange) ]

\* Outcomes of Math.random() one factor consumes per point: the critical
\* branch draws isAnomaly and then the value, the other branch the value.
DrawsPerPoint(isCritical) == IF isCritical THEN 2 ELSE 1

\* generateInitialHistory for the k-th factor, whose first outcome is the
\* one after those of the factors before it.
GenerateInitialHistory(factorId, k, isCritical, numPoints, tape, now) ==
    [ j \in 1 .. numPoints |->
        LET i == j - 1
            n == DrawsPerPoint(isCritical)
            at == ((k - 1) * numPoints + i) * n
            isAnomaly == IsAnomaly(Draw(tape, at))
            r == Draw(tape, at + n - 1)
            value == IF isCritical
                     THEN CriticalDraw(factorId, isAnomaly, r, 0)
                     ELSE NormalDraw(factorId, r, 0)
        IN  [ time |-> now - (numPoints - i) * 5, value |-> RoundTenth(value) ] ]

\* The unit strings are spelled in ASCII.
InitialFactors(isCritical) ==
    << [ id |-> "pitch", name |-> "Pitch Angle", unit |-> "deg",
         value |-> IF isCritical THEN 18 * FScale ELSE 3 * FScale,
         normalRange |-> [min |-> 0, max |-> 5] ],
       [ id |-> "rotor", name |-> "Rotor Speed", unit |-> "RPM",
         value |-> IF isCritical THEN 9 * FScale ELSE 16 * FScale,
         normalRange |-> [min |-> 14, max |-> 18] ],
       [ id |-> "generator", name |-> "Generator Temp", unit |-> "degC",
         value |-> IF isCritical THEN 87 * FScale ELSE 72 * FScale,
         normalRange |-> [min |-> 65, max |-> 75] ],
       [ id |-> "windSpeed", name |-> "Wind Speed", unit |-> "m/s",
         value |-> IF isCritical THEN 6 * FScale ELSE 10 * FScale,
         normalRange |-> [min |-> 8, max |-> 14] ] >>

InitialHistoryPoints == 30

InitializeCorrelationFactors(unitId, tape, now) ==
    LET isCritical == unitId = 6
        factors == InitialFactors(isCritical)
    IN  [ k \in 1 .. Len(factors) |->
            LET factor == factors[k]
                d == CalculateInitialDeviation(factor.value, factor.normalRange)
            IN  [ id |-> factor.id, name |-> factor.name, unit |-> factor.unit,
                  value |-> factor.value,
                  normalRange |-> factor.normalRange,
                  deviation |-> d.deviation,
                  deviationScore |-> d.deviationScore,
                  history |-> GenerateInitialHistory(factor.id, k, isCritical,
                                  InitialHistoryPoints, tape, now) ] ]

HistoryCap == 20

\* Mutant of SliceLast: slice(0, n), the oldest n entries.
SliceLast_KeepOldest(seq, n) ==
    IF Len(seq) <= n THEN seq ELSE SubSeq(seq, 1, n)

\* Mutant of SliceLast: no cut.
SliceLast_Uncut(seq, n) == seq

\* seq.slice(-n)
SliceLast(seq, n) ==
    IF Len(seq) <= n THEN seq ELSE SubSeq(seq, Len(seq) - n + 1, Len(seq))

\* generateNextDataPoint: the factor at position k consumes the tape's
\* outcomes after those of the factors before it.
GenerateNextDataPoint(unitId, time, currentFactors, tape, now) ==
    LET isCritical == unitId = 6
    IN  [ k \in 1 .. Len(currentFactors) |->
            LET factor == currentFactors[k]
                n == DrawsPerPoint(isCritical)
                at == (k - 1) * n
                isAnomaly == IsAnomaly(Draw(tape, at))
                r == Draw(tape, at + n - 1)
                newValue == IF isCritical
                            THEN CriticalDraw(factor.id, isAnomaly, r, factor.value)
                            ELSE NormalDraw(factor.id, r, factor.value)
                deviation == Deviation(newValue, factor.normalRange)
                newHistory == SliceLast(
                    Append(factor.history, [time |-> now, value |-> newValue]),
                    HistoryCap)
            IN  [ id |-> factor.id, name |-> factor.name, unit |-> factor.unit,
                  normalRange |-> factor.normalRange,
                  value |-> RoundTenth(newValue),
                  deviation |-> RoundTenth(deviation),
                  deviationScore |-> DeviationScore(deviation, factor.normalRange),
                  history |-> newHistory ] ]

\* Mutant of InsertByDeviation: f goes before the elements of equal score
\* (a sort that is not stable).
RECURSIVE InsertByDeviation_BeforeEqual(_, _)
InsertByDeviation_BeforeEqual(sorted, f) ==
    IF sorted = << >> THEN <<f>>
    ELSE IF Head(sorted).deviationScore > f.deviationScore
         THEN <<Head(sorted)>> \o InsertByDeviation_BeforeEqual(Tail(sorted), f)
         ELSE <<f>> \o sorted

\* Stable insertion of f into a sequence sorted by deviationScore, highest
\* first: f goes behind every element that compares not after it.
RECURSIVE InsertByDeviation(_, _)
InsertByDeviation(sorted, f) ==
    IF sorted = << >> THEN <<f>>
    ELSE IF Head(sorted).deviationScore >= f.deviationScore
         THEN <<Head(sorted)>> \o InsertByDeviation(Tail(sorted), f)
         ELSE <<f>> \o sorted

\* Mutant of SortFrom: the loop stops one element early.
RECURSIVE SortFrom_StopEarly(_, _, _)
SortFrom_StopEarly(factors, k, sorted) ==
    IF k >= Len(factors) THEN sorted
    ELSE SortFrom_StopEarly(factors, k + 1, InsertByDeviation(sorted, factors[k]))

\* [...factors].sort((a, b) => b.deviationScore - a.deviationScore), a stable
\* sort (ECMAScript 2019).
RECURSIVE SortFrom(_, _, _)
SortFrom(factors, k, sorted) ==
    IF k > Len(factors) THEN sorted
    ELSE SortFrom(factors, k + 1, InsertByDeviation(sorted, factors[k]))

\* Mutant of SortFactorsByDeviation: no sort.
SortFactorsByDeviation_Unsorted(factors) == factors

SortFactorsByDeviation(factors) == SortFrom(factors, 1, << >>)

----------------------------------------------------------------------------
(* Home.  A state change asks for a render; a render commits the state as   *)
(* `view`; after a commit the effects whose dependencies changed run with   *)
(* the values of that render.  A click and an interval callback run when    *)
(* React has nothing pending: the renders and effects that follow either    *)
(* take milliseconds, the interval 5 seconds.  The power-curve memo         *)
(* (generatePowerCurveData on a change of unit) is specified by SpecPC.     *)

NoTimer == [armed |-> FALSE]

Snapshot ==
    [ mounted |-> TRUE,
      selectedUnitId |-> selectedUnitId,
      currentTime |-> currentTime,
      isMounted |-> isMounted,
      correlationFactors |-> correlationFactors ]

\* Render and commit.
Render ==
    /\ phase = "render"
    /\ view' = Snapshot
    /\ phase' = "effects"
    /\ UNCHANGED <<selectedUnitId, currentTime, isMounted, correlationFactors,
                   effDeps, timers, effTimer, clock, ticks, selects>>
    /\ UNCHANGED <<epVars, pcVars, dsVars>>

\* Whether the effect with these dependencies runs after this commit.
FirstCommit == ~effDeps.mounted
\* Mutant of InitDepsChanged: the dependency list is [isMounted].
InitDepsChanged_MountOnly ==
    FirstCommit \/ effDeps.isMounted # view.isMounted

InitDepsChanged ==
    FirstCommit \/ effDeps.selectedUnitId # view.selectedUnitId
                \/ effDeps.isMounted # view.isMounted
\* Mutant of IntervalDepsChanged: the dependency list is [currentTime].
IntervalDepsChanged_TimeOnly ==
    FirstCommit \/ effDeps.currentTime # view.currentTime

\* Mutant of IntervalDepsChanged: the dependency list is [selectedUnitId].
IntervalDepsChanged_UnitOnly ==
    FirstCommit \/ effDeps.selectedUnitId # view.selectedUnitId

\* Mutant of IntervalDepsChanged: the interval effect never runs.
IntervalDepsChanged_Never == FALSE

IntervalDepsChanged ==
    FirstCommit \/ effDeps.selectedUnitId # view.selectedUnitId
                \/ effDeps.currentTime # view.currentTime

\* The effects of one commit: cleanups first, then the bodies in order.
Effects ==
    /\ phase = "effects"
    /\ \E tape \in Tapes :
          LET runInit == InitDepsChanged /\ view.isMounted
              newTimer == [ armed |-> TRUE,
                            selectedUnitId |-> view.selectedUnitId,
                            currentTime |-> view.currentTime ]
          IN  \* useEffect(() => setIsMounted(true), [])
              /\ isMounted' = IF FirstCommit THEN TRUE ELSE isMounted
              \* useEffect(..., [selectedUnitId, isMounted])
              /\ correlationFactors' =
                    IF runInit
                    THEN InitializeCorrelationFactors(view.selectedUnitId, tape, clock)
                    ELSE correlationFactors
              /\ currentTime' = IF runInit THEN 0 ELSE currentTime
              \* useEffect(..., [selectedUnitId, currentTime]): clearInterval
              \* of the previous run, then setInterval
              /\ timers' = IF IntervalDepsChanged
                           THEN (timers \ {effTimer}) \cup {newTimer}
                           ELSE timers
              /\ effTimer' = IF IntervalDepsChanged THEN newTimer ELSE effTimer
    /\ effDeps' = [ mounted |-> TRUE,
                    selectedUnitId |-> view.selectedUnitId,
                    currentTime |-> view.currentTime,
                    isMounted |-> view.isMounted ]
    /\ phase' = IF \/ isMounted' # view.isMounted
                   \/ correlationFactors' # view.correlationFactors
                   \/ currentTime' # view.currentTime
                THEN "render" ELSE "idle"
    /\ UNCHANGED <<selectedUnitId, view, clock, ticks, selects>>
    /\ UNCHANGED <<epVars, pcVars, dsVars>>

\* Sidebar: onSelectUnit = setSelectedUnitId.
SelectUnit ==
    /\ phase = "idle"
    /\ selects < MaxSelects
    /\ \E u \in UnitIds \ {selectedUnitId} : selectedUnitId' = u
    /\ selects' = selects + 1
    /\ phase' = "render"
    /\ UNCHANGED <<currentTime, isMounted, correlationFactors, view, effDeps,
                   timers, effTimer, clock, ticks>>
    /\ UNCHANGED <<epVars, pcVars, dsVars>>

\* An armed interval fires, 5 seconds after the last: its callback uses the
\* selectedUnitId and currentTime of the render that armed it.
Tick ==
    /\ phase = "idle"
    /\ ticks < MaxTicks
    /\ \E tm \in timers, tape \in Tapes :
          /\ clock' = clock + 5
          /\ currentTime' = currentTime + 1
          /\ correlationFactors' =
                SortFactorsByDeviation(
                    GenerateNextDataPoint(tm.selectedUnitId, tm.currentTime,
                        correlationFactors, tape, clock'))
    /\ ticks' = ticks + 1
    /\ phase' = "render"
    /\ UNCHANGED <<selectedUnitId, isMounted, view, effDeps, timers, effTimer,
                   selects>>
    /\ UNCHANGED <<epVars, pcVars, dsVars>>

Init == EPInit /\ PCIdle /\ HomeInit /\ DSIdle
Next == Render \/ Effects \/ SelectUnit \/ Tick
Spec == Init /\ [][Next]_vars

\* The session with its scheduling: React renders a changed state and runs
\* the effects of a commit, and an armed interval fires.  A click is up to
\* the user and has no fairness.
SpecLive ==
    Init /\ [][Next]_vars /\ WF_vars(Render) /\ WF_vars(Effects) /\ WF_vars(Tick)

----------------------------------------------------------------------------
(* generateDistributionData.  Its locals count 1/DistScale of the factor's  *)
(* unit, which makes (max - min) / 6, its multiples by 2.0, 1.4 and 1.1 and *)
(* the jitter (Math.random() - 0.5) * referenceStdDev * 0.5 exact for the   *)
(* outcomes in thousandths; the returned fields count hundredths.  The two  *)
(* density curves of generateBellCurveData are samples of the returned      *)
(* means and deviations for the charts and are left out.                    *)

DistScale == 12000

\* Math.round(x * 100) / 100 of a local, x >= 0, in hundredths.
Round2(x) == (x + DistScale \div 200) \div (DistScale \div 100)

\* Mutant of DistributionLocals: the shift always goes up.
DistributionLocals_ShiftUp(factor, unitId, r) ==
    LET width == factor.normalRange.max - factor.normalRange.min
        referenceMean == ((factor.normalRange.min + factor.normalRange.max) * DistScale) \div 2
        referenceStdDev == (width * DistScale) \div 6
    IN  [ referenceMean |-> referenceMean,
          referenceStdDev |-> referenceStdDev,
          actualMean |-> referenceMean + (width * DistScale * 4) \div 10,
          actualStdDev |-> referenceStdDev * 2 ]

\* Mutant of DistributionLocals: the nominal jitter is
\* (Math.random() - 0.5) * referenceStdDev, twice as wide.
DistributionLocals_WideJitter(factor, unitId, r) ==
    LET width == factor.normalRange.max - factor.normalRange.min
        referenceMean == ((factor.normalRange.min + factor.normalRange.max) * DistScale) \div 2
        referenceStdDev == (width * DistScale) \div 6
    IN  [ referenceMean |-> referenceMean,
          referenceStdDev |-> referenceStdDev,
          actualMean |-> referenceMean
                           + ((r - RandScale \div 2) * referenceStdDev) \div RandScale,
          actualStdDev |-> (referenceStdDev * 11) \div 10 ]

\* Lines 626-655: the parameters of the two distributions; r is the outcome
\* of Math.random() (nominal units only).
DistributionLocals(factor, unitId, r) ==
    LET isCritical == unitId = 6
        isWarning == unitId = 4
        width == factor.normalRange.max - factor.normalRange.min
        referenceMean == ((factor.normalRange.min + factor.normalRange.max) * DistScale) \div 2
        referenceStdDev == (width * DistScale) \div 6
        below == factor.value * (DistScale \div FScale) < referenceMean
        shifted(shiftAmount) ==
            IF below THEN referenceMean - shiftAmount ELSE referenceMean + shiftAmount
    IN  [ referenceMean |-> referenceMean,
          referenceStdDev |-> referenceStdDev,
          actualMean |->
              IF isCritical THEN shifted((width * DistScale * 4) \div 10)
              ELSE IF isWarning THEN shifted((width * DistScale * 25) \div 100)
              ELSE referenceMean
                     + ((r - RandScale \div 2) * referenceStdDev) \div (2 * RandScale),
          actualStdDev |->
              IF isCritical THEN referenceStdDev * 2
              ELSE IF isWarning THEN (referenceStdDev * 14) \div 10
              ELSE (referenceStdDev * 11) \div 10 ]

\* Mutant of GenerateDistributionData: actualStdDev is twice the rounded
\* referenceStdDev.
GenerateDistributionData_FromRounded(local) ==
    [ referenceMean |-> Round2(local.referenceMean),
      referenceStdDev |-> Round2(local.referenceStdDev),
      actualMean |-> Round2(local.actualMean),
      actualStdDev |-> Round2(local.referenceStdDev) * 2 ]

\* Lines 666-673: the returned record, without its two curves.
GenerateDistributionData(local) ==
    [ referenceMean |-> Round2(local.referenceMean),
      referenceStdDev |-> Round2(local.referenceStdDev),
      actualMean |-> Round2(local.actualMean),
      actualStdDev |-> Round2(local.actualStdDev) ]

\* The factors the call is made with: each configured factor with one of its
\* two initial values, the middle of its normal range, or a value just
\* below the middle.
DistFactors ==
    UNION { LET f == InitialFactors(FALSE)[k]
                middle == ((f.normalRange.min + f.normalRange.max) * FScale) \div 2
            IN  { [ id |-> f.id, normalRange |-> f.normalRange, value |-> v ] :
                    v \in { f.value, InitialFactors(TRUE)[k].value,
                            middle, middle - FScale \div 10 } }
          : k \in 1 .. 4 }

DistributionCall ==
    /\ \E factor \in DistFactors, unitId \in CallUnitIds, s \in Tapes :
          /\ dsFactor' = factor
          /\ dsUnitId' = unitId
          /\ dsLocal' = DistributionLocals(factor, unitId, Draw(s, 0))
          /\ dsData' = GenerateDistributionData(dsLocal')
    /\ UNCHANGED <<epVars, pcVars, homeVars>>

InitDS == EPInit /\ PCIdle /\ HomeInit /\ DSIdle
SpecDS == InitDS /\ [][DistributionCall]_vars

----------------------------------------------------------------------------
(* Claims about generatePowerCurveData, under SpecPC.  In a sample the wind *)
(* speed counts hundredths of a m/s and the powers count tenths of a kW.   *)

Samples == DOMAIN pcData
Present(i) == pcData[i].actualPower # NoValue

\* C3 as stated: actualPower is present exactly in the samples whose wind
\* speed lies in [3, 25), the sample at 3 m/s included, for every unit.
C3_ActualPresentIffOperating ==
    \A i \in Samples :
        Present(i) <=> (pcData[i].windSpeed >= 300 /\ pcData[i].windSpeed < 2500)

\* C4 as stated: in every sample minPower <= maxPower, minPower is
\* 0.85 * (the stored expectedPower) rounded to one decimal and maxPower is
\* 1.05 * (the stored expectedPower) rounded to one decimal (either way on a
\* tie).
C4_Original ==
    \A i \in Samples :
        /\ pcData[i].minPower <= pcData[i].maxPower
        /\ Abs(100 * pcData[i].minPower - 85 * pcData[i].expectedPower) <= 50
        /\ Abs(100 * pcData[i].maxPower - 105 * pcData[i].expectedPower) <= 50

\* C4, amended: in every sample minPower <= maxPower, and minPower, maxPower
\* are 0.85 and 1.05 times the unrounded expected power of the sample's wind
\* speed, each rounded to one decimal on its own (within 0.05 kW of it).
C4_BandFromUnroundedExpected ==
    \A i \in Samples :
        LET e == CalculateExpectedPower(WindSpeeds[i])
            tenth == PowerScale \div 10
        IN  /\ pcData[i].minPower <= pcData[i].maxPower
            /\ 2 * Abs(pcData[i].minPower * tenth - (85 * e) \div 100) <= tenth
            /\ 2 * Abs(pcData[i].maxPower * tenth - (105 * e) \div 100) <= tenth
            /\ 2 * Abs(pcData[i].expectedPower * tenth - e) <= tenth

\* The sample at 4.1 m/s: expected 3.7, max 3.8 (1.05 * 3.7 is 3.885).
C4_Witness ==
    \E i \in Samples :
        /\ pcData[i].windSpeed = 410
        /\ pcData[i].expectedPower = 37
        /\ pcData[i].maxPower = 38

\* C5: for every unit, zone and noise outcome, a present actualPower never
\* exceeds 0.98 * maxPower of the same sample.
C5_ActualBelowCap ==
    \A i \in Samples :
        Present(i) => 100 * pcData[i].actualPower <= 98 * pcData[i].maxPower

\* A unit of the nominal profile at rated wind whose noise took it to the
\* cap of the plateau, 100% of expected.
C5_Witness ==
    /\ pcUnitId = 1
    /\ \E i \in Samples :
          /\ pcData[i].windSpeed = 1500
          /\ pcData[i].actualPower = pcData[i].expectedPower

InEnvelope(i) ==
    /\ pcData[i].minPower <= pcData[i].actualPower
    /\ pcData[i].actualPower <= pcData[i].maxPower

\* Unit 6 at a wind speed within 1.2 m/s of a spike position.
InSpikeWindow(i) == SpikeIndex(WindSpeeds[i]) # 0

\* Unit 4 in the dip of the 4-11 m/s ramp: dipCycle > 0.5.
InDipPhase(i) ==
    /\ WsGe(WindSpeeds[i], 40) /\ WsLe(WindSpeeds[i], 110)
    /\ DipCycle(WindSpeeds[i]) > 500000

\* C6 as stated: a present actualPower lies within [minPower, maxPower]
\* except only for unit 6 outside its spike windows and for unit 4 in the dip
\* phase of the ramp; unit 6 inside a spike window is inside the envelope.
C6_Original ==
    \A i \in Samples :
        Present(i) =>
            \/ InEnvelope(i)
            \/ pcUnitId = 6 /\ ~InSpikeWindow(i)
            \/ pcUnitId = 4 /\ InDipPhase(i)

\* C6, amended: a present actualPower lies within [minPower, maxPower]
\* except only for unit 6 (in its baseline phase and inside its spike windows
\* alike) and for unit 4 in the dip phase of the ramp.
C6_EnvelopeExceptFaultedAndDip ==
    \A i \in Samples :
        Present(i) =>
            \/ InEnvelope(i)
            \/ pcUnitId = 6
            \/ pcUnitId = 4 /\ InDipPhase(i)

\* Unit 6 at the peak of its first spike (6.5 m/s), below minPower.
C6_Witness ==
    /\ pcUnitId = 6
    /\ \E i \in Samples :
          /\ pcData[i].windSpeed = 650
          /\ InSpikeWindow(i)
          /\ Present(i)
          /\ pcData[i].actualPower < pcData[i].minPower

SameSweep(d1, d2) ==
    /\ Len(d1) = Len(d2)
    /\ \A i \in DOMAIN d1 :
          /\ d1[i].windSpeed = d2[i].windSpeed
          /\ d1[i].minPower = d2[i].minPower
          /\ d1[i].maxPower = d2[i].maxPower
          /\ d1[i].expectedPower = d2[i].expectedPower

\* C7: a call and the call after it, whatever their units, pointHints and
\* noise outcomes, return sequences of the same length with the same
\* windSpeed, minPower, maxPower and expectedPower at every index.
C7_SweepIndependentOfCall ==
    [][pcCalls >= 1 => SameSweep(pcData, pcData')]_vars

\* A second call, for the faulted unit with a pointHint other than the
\* default: its timestamps and actualPower differ from a default call's.
C7_Witness ==
    /\ pcCalls = 2
    /\ pcUnitId = 6
    /\ pcNumPoints = 300
    /\ pcTape = 2
    /\ Len(pcData) = 107
    /\ pcData[1].timestamp = 90000000


----------------------------------------------------------------------------
(* Claims about the correlation factors of a session, under Spec. *)

\* The factor of a list with a given id.
FactorOf(factors, id) ==
    CHOOSE f \in {factors[k] : k \in 1 .. Len(factors)} : f.id = id

FactorIdsOf(factors) == {factors[k].id : k \in 1 .. Len(factors)}

\* history h2 is history h1 plus one sample stamped `now`, cut to its last
\* HistoryCap entries.
Advanced(h1, h2, now) ==
    /\ Len(h2) = Min(HistoryCap, Len(h1) + 1)
    /\ h2[Len(h2)].time = now
    /\ \A j \in 1 .. Len(h2) - 1 : h2[j] = h1[Len(h1) + 1 - (Len(h2) - j)]

\* C8: after every interval callback (generateNextDataPoint), each factor's
\* history is its previous history with the new sample appended at the end,
\* cut to the last 20 entries; its length is min(20, previous length + 1),
\* and the new sample is the value the factor reports, before rounding.
C8_HistoryAppendedAndCapped ==
    [][ ticks' = ticks + 1 =>
          /\ FactorIdsOf(correlationFactors') = FactorIdsOf(correlationFactors)
          /\ \A id \in FactorIdsOf(correlationFactors) :
                LET f1 == FactorOf(correlationFactors, id)
                    f2 == FactorOf(correlationFactors', id)
                IN  /\ Advanced(f1.history, f2.history, clock')
                    /\ RoundTenth(f2.history[Len(f2.history)].value) = f2.value
      ]_vars

\* Two callbacks have run: the first cut a history of 30 to 20, the second
\* advanced a history of 20.
C8_Witness ==
    /\ ticks = 2
    /\ \E k \in 1 .. Len(correlationFactors) :
          LET h == correlationFactors[k].history
          IN  /\ Len(h) = HistoryCap
              /\ h[HistoryCap].time = clock
              /\ h[HistoryCap - 1].time = clock - 5
              /\ h[1].time = clock - 5 * HistoryCap

\* The claim as stated: in every state of a session, right after
\* initializeCorrelationFactors included, a history has at most 20 entries.
C9_Original ==
    \A k \in 1 .. Len(correlationFactors) :
        Len(correlationFactors[k].history) <= 20

\* C9: every factor's history has the 30 pre-filled entries from
\* initializeCorrelationFactors until the first interval callback, and 20
\* entries (so at most 20) in every state after a callback.
C9_HistoryFullThenCapped ==
    \A k \in 1 .. Len(correlationFactors) :
        Len(correlationFactors[k].history) =
            IF currentTime = 0 THEN InitialHistoryPoints ELSE HistoryCap

\* The factors were initialized again after a callback had cut them.
C9_Witness ==
    /\ ticks >= 1
    /\ currentTime = 0
    /\ Len(correlationFactors) = 4
    /\ \A k \in 1 .. Len(correlationFactors) :
          Len(correlationFactors[k].history) = InitialHistoryPoints

\* C10: for every factor an interval callback returned, the stored
\* deviationScore is 0 exactly when the stored value lies within
\* [normalRange.min, normalRange.max].
C10_ScoreZeroIffValueInRange ==
    ticks >= 1 /\ currentTime >= 1 =>
        \A k \in 1 .. Len(correlationFactors) :
            LET f == correlationFactors[k]
            IN  f.deviationScore = 0
                  <=> /\ f.value >= f.normalRange.min * FScale
                      /\ f.value <= f.normalRange.max * FScale

\* The distance of a value outside a factor's normal range, in thousandths.
DistanceOutside(value, f) ==
    IF value < f.normalRange.min * FScale THEN f.normalRange.min * FScale - value
    ELSE IF value > f.normalRange.max * FScale THEN value - f.normalRange.max * FScale
    ELSE 0

RangeWidth(f) == f.normalRange.max - f.normalRange.min

\* The value a factor was computed from: the constant of
\* initializeCorrelationFactors, or the sample generateNextDataPoint drew and
\* appended to the history.
DrawnValue(f) ==
    IF currentTime = 0 THEN f.value ELSE f.history[Len(f.history)].value

\* The claim as stated, on the stored fields: deviation is the distance of
\* the stored value outside the range and deviationScore is exactly
\* min(100, |deviation| / (max - min) * 100).
C11_Original ==
    \A k \in 1 .. Len(correlationFactors) :
        LET f == correlationFactors[k]
        IN  /\ f.deviation = DistanceOutside(f.value, f)
            /\ f.deviationScore * RangeWidth(f)
                 = Min(100 * 10 * RangeWidth(f), Abs(f.deviation))

\* C11: in every factor of initializeCorrelationFactors or
\* generateNextDataPoint, with d the distance of the drawn (unrounded) value
\* outside [min, max], the stored deviation is d rounded to one decimal, the
\* stored deviationScore is min(100, d / (max - min) * 100) rounded to one
\* decimal, and the deviationScore lies within [0, 100].
C11_ScoreFromDrawnValue ==
    \A k \in 1 .. Len(correlationFactors) :
        LET f == correlationFactors[k]
            d == DistanceOutside(DrawnValue(f), f)
            w == RangeWidth(f)
        IN  /\ 2 * Abs(f.deviation - d) <= 100
            /\ f.deviation % 100 = 0
            /\ 2 * Abs(f.deviationScore * w - Min(100 * 10 * w, d)) <= w
            /\ f.deviationScore >= 0
            /\ f.deviationScore <= 100 * 10

\* After a callback, a factor whose stored score is neither 0 nor 100 and is
\* not the exact quotient of its stored deviation.
C11_Witness ==
    /\ ticks >= 1
    /\ currentTime >= 1
    /\ \E k \in 1 .. Len(correlationFactors) :
          LET f == correlationFactors[k]
          IN  /\ f.deviationScore > 0
              /\ f.deviationScore < 100 * 10
              /\ f.deviationScore * RangeWidth(f) # Abs(f.deviation)

\* A factor sequence ordered by deviationScore, highest first.
ScoresNonIncreasing(factors) ==
    \A k \in 1 .. Len(factors) - 1 :
        factors[k].deviationScore >= factors[k + 1].deviationScore

\* C12: after every interval callback, for every unit and every draw, the
\* factor sequence the session stores (generateNextDataPoint followed by
\* sortFactorsByDeviation) is ordered by deviationScore non-increasing.
C12_SortedAfterTick ==
    [][ ticks' = ticks + 1 => ScoresNonIncreasing(correlationFactors') ]_vars

\* A callback has run whose sort moved a factor: generator, third in the
\* order of initialization, stands before a factor of lower score.
C12_Witness ==
    /\ ticks >= 1
    /\ currentTime >= 1
    /\ Len(correlationFactors) = 4
    /\ correlationFactors[2].id = "generator"
    /\ correlationFactors[2].deviationScore > correlationFactors[3].deviationScore

\* C13: for every unit, initializeCorrelationFactors returns exactly the four
\* factors pitch, rotor, generator, windSpeed, one each, and the sequence is
\* ordered by deviationScore non-increasing although the function does not
\* sort.
C13_InitialFactorsFourAndSorted ==
    currentTime = 0 /\ correlationFactors # << >> =>
        /\ Len(correlationFactors) = 4
        /\ FactorIdsOf(correlationFactors) = {"pitch", "rotor", "generator", "windSpeed"}
        /\ ScoresNonIncreasing(correlationFactors)

\* The critical unit was initialized: its scores are not all equal.
C13_Witness ==
    /\ currentTime = 0
    /\ selectedUnitId = 6
    /\ view.selectedUnitId = 6
    /\ Len(correlationFactors) = 4
    /\ correlationFactors[1].history[InitialHistoryPoints].time = clock - 5
    /\ correlationFactors[1].deviationScore > correlationFactors[4].deviationScore

\* The unit the stored factors were initialized for: the selectedUnitId the
\* initialize effect last ran with.
FactorsUnit == effDeps.selectedUnitId

\* v is an outcome of base + Math.random() * span, Math.random() in [0, 1),
\* for the draw of factor id in the class of the unit.
InDrawSpan(v, id, isCritical, isAnomaly) ==
    IF isCritical
    THEN /\ v >= CriticalDraw(id, isAnomaly, 0, 0)
         /\ v < CriticalDraw(id, isAnomaly, RandScale, 0)
    ELSE /\ v >= NormalDraw(id, 0, 0)
         /\ v < NormalDraw(id, RandScale, 0)

----------------------------------------------------------------------------
(* Claims about generateDistributionData, under SpecDS. *)

DSCalled == dsData # [called |-> FALSE]

DSWidth == dsFactor.normalRange.max - dsFactor.normalRange.min

\* s of the claim: -1 when factor.value lies below the middle of the normal
\* range, +1 otherwise.
DSSide ==
    IF 2 * dsFactor.value < (dsFactor.normalRange.min + dsFactor.normalRange.max) * FScale
    THEN 0 - 1 ELSE 1

\* C15: for the critical unit (6) actualMean = referenceMean + s * 0.4 *
\* (max - min), for the warning unit (4) actualMean = referenceMean + s *
\* 0.25 * (max - min), with referenceMean the middle of the normal range and
\* s = -1 when factor.value < referenceMean, +1 otherwise; normalRange
\* [65, 75] with value 87 on the critical unit gives 70 and 74.
C15_ShiftedMean ==
    DSCalled =>
        /\ 2 * dsData.referenceMean
             = (dsFactor.normalRange.min + dsFactor.normalRange.max) * 100
        /\ dsUnitId = 6 =>
             /\ dsData.actualMean = dsData.referenceMean + DSSide * 40 * DSWidth
             /\ 10 * dsLocal.actualMean
                  = 10 * dsLocal.referenceMean + DSSide * 4 * DSWidth * DistScale
        /\ dsUnitId = 4 =>
             /\ dsData.actualMean = dsData.referenceMean + DSSide * 25 * DSWidth
             /\ 100 * dsLocal.actualMean
                  = 100 * dsLocal.referenceMean + DSSide * 25 * DSWidth * DistScale
        /\ ( /\ dsUnitId = 6
             /\ dsFactor.normalRange = [min |-> 65, max |-> 75]
             /\ dsFactor.value = 87 * FScale )
           => dsData.referenceMean = 7000 /\ dsData.actualMean = 7400

\* The critical unit's distribution of a factor whose value lies below the
\* middle of its normal range (rotor, 9 RPM in [14, 18]): the mean is shifted
\* down.
C15_Witness ==
    /\ DSCalled
    /\ dsUnitId = 6
    /\ dsFactor.id = "rotor"
    /\ dsFactor.value = 9 * FScale
    /\ dsData.actualMean = 1440

\* Ten times the factor of the unit's class on the standard deviation:
\* 2.0 critical, 1.4 warning, 1.1 nominal.
DSSpread == IF dsUnitId = 6 THEN 20 ELSE IF dsUnitId = 4 THEN 14 ELSE 11

\* The claim as stated: the returned actualStdDev is the class factor times
\* the returned referenceStdDev.
C16_Original ==
    DSCalled => 10 * dsData.actualStdDev = DSSpread * dsData.referenceStdDev

\* C16: before the return actualStdDev is 2.0 (critical), 1.4 (warning) or
\* 1.1 (nominal) times referenceStdDev = (max - min) / 6; the returned
\* referenceStdDev and actualStdDev are these two numbers each rounded to two
\* decimals.
C16_SpreadBeforeRounding ==
    DSCalled =>
        /\ 6 * dsLocal.referenceStdDev = DSWidth * DistScale
        /\ 10 * dsLocal.actualStdDev = DSSpread * dsLocal.referenceStdDev
        /\ Abs(6 * dsData.referenceStdDev - 100 * DSWidth) <= 3
        /\ Abs(6 * dsData.actualStdDev - 10 * DSSpread * DSWidth) <= 3

\* The critical unit's distribution over [65, 75]: 1.67 and 3.33 returned.
C16_Witness ==
    /\ DSCalled
    /\ dsUnitId = 6
    /\ dsData.referenceStdDev = 167
    /\ dsData.actualStdDev = 333

DSNominal == dsUnitId # 4 /\ dsUnitId # 6

\* The claim as stated, on the fields of the returned record.
C17_Original ==
    DSCalled /\ DSNominal =>
        /\ 4 * Abs(dsData.actualMean - dsData.referenceMean) <= dsData.referenceStdDev
        /\ dsData.actualStdDev > 0

\* C17: for a nominal unit (any id other than 4 and 6) and every outcome of
\* the jitter, before rounding |actualMean - referenceMean| <= 0.25 *
\* referenceStdDev; the returned two-decimal fields keep the distance within
\* 0.25 * (max - min) / 6 + 0.005 and within 0.5 * the returned
\* referenceStdDev; actualStdDev is strictly positive before and after
\* rounding.
C17_NominalJitterBounded ==
    DSCalled /\ DSNominal =>
        /\ 4 * Abs(dsLocal.actualMean - dsLocal.referenceMean) <= dsLocal.referenceStdDev
        /\ 24 * Abs(dsData.actualMean - dsData.referenceMean) <= 100 * DSWidth + 12
        /\ 2 * Abs(dsData.actualMean - dsData.referenceMean) <= dsData.referenceStdDev
        /\ dsLocal.actualStdDev > 0
        /\ dsData.actualStdDev > 0

\* A nominal unit's distribution over [14, 18] with Math.random() = 0: the
\* mean 15.8333 is returned as 15.83, 0.17 below 16.
C17_Witness ==
    /\ DSCalled
    /\ DSNominal
    /\ dsData.referenceMean = 1600
    /\ dsData.actualMean = 1583
    /\ dsData.referenceStdDev = 67

----------------------------------------------------------------------------
(* Unit ids outside the registry of generateUnitsInfo (ids 1 .. 6). *)

\* C18: a generator called with a unit id outside the registry yields an
\* 'unknown unit' signal and no data of a default behavioural class; stated
\* for generatePowerCurveData under SpecPC: such a call returns no sample.
C18_UnknownUnitYieldsNoData ==
    pcUnitId \notin UnitIds => pcData = << >>

----------------------------------------------------------------------------
(* Claims about the timer and the selected unit, under Spec. *)

\* The results generateNextDataPoint and the re-sort can give for the unit
\* selected now, over every draw.
AdvancesOfSelectedUnit(now) ==
    { SortFactorsByDeviation(
          GenerateNextDataPoint(selectedUnitId, currentTime, correlationFactors,
                                tape, now)) : tape \in Tapes }

\* C19: an interval armed while unit A was selected never fires after another
\* unit B has been selected: the effect's cleanup clears the pending interval
\* before a new one is armed, so at most one interval is armed, its callback
\* carries the selected unit, and every advance of the factor set uses the
\* draw class of the unit selected at that moment.
C19_NoStaleTimer ==
    /\ [](/\ Cardinality(timers) <= 1
          /\ phase = "idle" =>
                \A tm \in timers : tm.selectedUnitId = selectedUnitId)
    /\ [][ ticks' = ticks + 1 =>
             /\ FactorsUnit = selectedUnitId
             /\ correlationFactors' \in AdvancesOfSelectedUnit(clock') ]_vars

\* The critical unit was selected after unit 1 and an interval has fired
\* since its factors were initialized.
C19_Witness ==
    /\ selects >= 1
    /\ selectedUnitId = 6
    /\ FactorsUnit = 6
    /\ currentTime >= 1
    /\ phase = "idle"
    /\ timers = {[armed |-> TRUE, selectedUnitId |-> 6, currentTime |-> currentTime]}

\* The results of initializeCorrelationFactors for a unit at a time, over
\* every draw.
InitialFactorSets(unitId, now) ==
    { InitializeCorrelationFactors(unitId, tape, now) : tape \in Tapes }

\* C20: when the selected unit changes from A to another unit B, processing
\* the change replaces the factor set by initializeCorrelationFactors(B) and
\* sets currentTime to 0; until the next interval callback the factor set is
\* exactly such a result, so no history sample, value or deviation score of
\* A is left in it.
C20_ReplacedOnUnitChange ==
    /\ [][ ( /\ effDeps.mounted
             /\ effDeps'.selectedUnitId # effDeps.selectedUnitId )
           => /\ effDeps'.selectedUnitId = selectedUnitId
              /\ currentTime' = 0
              /\ correlationFactors' \in InitialFactorSets(selectedUnitId, clock) ]_vars
    /\ []( ( /\ currentTime = 0
             /\ correlationFactors # << >>
             /\ FactorsUnit = selectedUnitId )
           => correlationFactors \in InitialFactorSets(selectedUnitId, clock) )

\* The critical unit was selected after unit 1 had been advanced, and the
\* change has been processed.
C20_Witness ==
    /\ ticks >= 1
    /\ selects = 1
    /\ selectedUnitId = 6
    /\ FactorsUnit = 6
    /\ currentTime = 0
    /\ phase = "idle"
    /\ correlationFactors \in InitialFactorSets(6, clock)

\* C21: in every state of the session after mount the factor set was
\* generated for the selected unit, and a commit never passes the factor
\* charts a selected unit together with factors generated for another unit.
C21_FactorsOfSelectedUnit ==
    isMounted /\ correlationFactors # << >> =>
        /\ FactorsUnit = selectedUnitId
        /\ phase = "effects" => view.selectedUnitId = FactorsUnit

----------------------------------------------------------------------------
(* Claims about the share of expected power each profile produces, under    *)
(* SpecPC.                                                                  *)

\* C22: for the critical unit (6) every present actualPower of the sweep is
\* between 50% and 80% of the expected power at the same wind speed.
C22_CriticalBetween50And80 ==
    pcUnitId = 6 =>
        \A i \in Samples :
            Present(i) =>
                /\ 100 * pcData[i].actualPower >= 50 * pcData[i].expectedPower
                /\ 100 * pcData[i].actualPower <= 80 * pcData[i].expectedPower

\* Sample i lies on the 4-11 m/s ramp.
OnRampSample(i) == WsGe(WindSpeeds[i], 4 * WsScale) /\ WsLe(WindSpeeds[i], 11 * WsScale)

\* C23: for the nominal units (1, 2, 3, 5), at every sample with
\* 4 <= windSpeed <= 11 and for every noise outcome, actualPower is between
\* 88% and 98% of expectedPower.
C23_NominalRampBetween88And98 ==
    pcUnitId \in {1, 2, 3, 5} =>
        \A i \in Samples :
            OnRampSample(i) /\ Present(i) =>
                /\ 100 * pcData[i].actualPower >= 88 * pcData[i].expectedPower
                /\ 100 * pcData[i].actualPower <= 98 * pcData[i].expectedPower

\* C24: for the degraded unit (4), at the midpoint of the 4-11 m/s ramp
\* (7.5 m/s) and for every noise outcome, actualPower is between 75% and 80%
\* of expectedPower and lies below minPower.
C24_WarningMidpointBetween75And80 ==
    pcUnitId = 4 =>
        \A i \in Samples :
            pcData[i].windSpeed = 750 =>
                /\ Present(i)
                /\ 100 * pcData[i].actualPower >= 75 * pcData[i].expectedPower
                /\ 100 * pcData[i].actualPower <= 80 * pcData[i].expectedPower
                /\ pcData[i].actualPower < pcData[i].minPower

\* The claim as stated, on the fields of the samples: outside the spike
\* windows actualPower is 0.45 * minPower times a factor in [0.85, 1.15],
\* inside them it lies in [0.45 * minPower, 0.85 * minPower], and it is
\* always strictly below minPower.
C25_Original ==
    pcUnitId = 6 =>
        \A i \in Samples :
            Present(i) =>
                /\ pcData[i].actualPower < pcData[i].minPower
                /\ IF InSpikeWindow(i)
                   THEN /\ 100 * pcData[i].actualPower >= 45 * pcData[i].minPower
                        /\ 100 * pcData[i].actualPower <= 85 * pcData[i].minPower
                   ELSE /\ 10000 * pcData[i].actualPower >= 45 * 85 * pcData[i].minPower
                        /\ 10000 * pcData[i].actualPower <= 45 * 115 * pcData[i].minPower

\* The unrounded minPower and actualPower of the critical unit's sample i.
CriticalMin(i) == (CalculateExpectedPower(WindSpeeds[i]) * 85) \div 100
CriticalRaw(i) == CriticalPower(WindSpeeds[i], CriticalMin(i), Draw(pcTape, i))

\* C25: for the faulted unit (6), wherever actualPower is present: before
\* the rounding of the sample's fields, outside every spike window it is
\* 0.45 * minPower times a factor in [0.85, 1.15] (to the resolution of the
\* arithmetic) and the stored one-decimal fields keep that to within their
\* rounding; inside a spike window the stored actualPower lies in
\* [0.45 * minPower, 0.85 * minPower]; the stored actualPower is always
\* strictly below the stored minPower, at the spike peaks too.
C25_CriticalBelowBand ==
    pcUnitId = 6 =>
        \A i \in Samples :
            Present(i) =>
                /\ pcData[i].actualPower < pcData[i].minPower
                /\ IF InSpikeWindow(i)
                   THEN /\ 100 * pcData[i].actualPower >= 45 * pcData[i].minPower
                        /\ 100 * pcData[i].actualPower <= 85 * pcData[i].minPower
                        /\ CriticalRaw(i) + 2 >= Times(CriticalMin(i), 450000, FALSE)
                        /\ CriticalRaw(i) - 2 <= Times(CriticalMin(i), 850000, FALSE)
                   ELSE /\ CriticalRaw(i) + 2 >= Times(CriticalMin(i), 382500, FALSE)
                        /\ CriticalRaw(i) - 2 <= Times(CriticalMin(i), 517500, FALSE)
                        /\ 10000 * pcData[i].actualPower + 6913 >= 45 * 85 * pcData[i].minPower
                        /\ 10000 * pcData[i].actualPower <= 45 * 115 * pcData[i].minPower + 7588

\* The critical unit at the peak of its second spike (10 m/s) with the
\* highest noise: 85% of minPower, still below it.
C25_Witness ==
    /\ pcUnitId = 6
    /\ \E i \in Samples :
          /\ pcData[i].windSpeed = 1000
          /\ InSpikeWindow(i)
          /\ Present(i)
          /\ 100 * pcData[i].actualPower >= 84 * pcData[i].minPower
          /\ pcData[i].actualPower < pcData[i].minPower

----------------------------------------------------------------------------
(* Claims about the factors of each class of unit, under Spec. *)

IdsInOrder(factors) == [k \in 1 .. Len(factors) |-> factors[k].id]

\* C26: for every non-critical unit (1-5, the warning unit 4 included, which
\* draws like a nominal unit) every factor's deviationScore is 0 after
\* initialization and after any number of interval callbacks, and the
\* factors stay in the order pitch, rotor, generator, windSpeed.
C26_NonCriticalScoresZero ==
    correlationFactors # << >> /\ FactorsUnit # 6 =>
        /\ \A k \in 1 .. Len(correlationFactors) :
              correlationFactors[k].deviationScore = 0
        /\ IdsInOrder(correlationFactors) = <<"pitch", "rotor", "generator", "windSpeed">>

\* The warning unit was selected and has been advanced since.
C26_Witness ==
    /\ selectedUnitId = 4
    /\ FactorsUnit = 4
    /\ currentTime >= 1
    /\ Len(correlationFactors) = 4
    /\ correlationFactors[4].history[HistoryCap].time = clock

\* C27: for the critical unit (6), after initialization and after any number
\* of interval callbacks, pitch and generator have deviationScore exactly
\* 100 and windSpeed at most 50, so windSpeed is never in one of the first
\* two positions.
C27_CriticalScores ==
    correlationFactors # << >> /\ FactorsUnit = 6 =>
        /\ FactorOf(correlationFactors, "pitch").deviationScore = 100 * 10
        /\ FactorOf(correlationFactors, "generator").deviationScore = 100 * 10
        /\ FactorOf(correlationFactors, "windSpeed").deviationScore <= 50 * 10
        /\ correlationFactors[1].id # "windSpeed"
        /\ correlationFactors[2].id # "windSpeed"

\* The critical unit after a callback whose wind-speed draw was the lowest
\* anomaly (5 m/s): its score is exactly 50.
C27_Witness ==
    /\ currentTime >= 1
    /\ FactorsUnit = 6
    /\ Len(correlationFactors) = 4
    /\ FactorOf(correlationFactors, "windSpeed").value = 5 * FScale
    /\ FactorOf(correlationFactors, "windSpeed").deviationScore = 50 * 10

\* The fields of a factor that identify it.
Identity(f) ==
    [id |-> f.id, name |-> f.name, unit |-> f.unit, normalRange |-> f.normalRange]

ConfiguredIdentities == {Identity(InitialFactors(FALSE)[k]) : k \in 1 .. 4}

\* C28: after initialization and after any sequence of interval callbacks
\* and re-sorts the factor set holds exactly one factor for each of pitch,
\* rotor, generator, windSpeed; a callback adds, drops and duplicates none
\* and leaves each factor's id, name, unit and normalRange unchanged.
C28_FactorSetFrame ==
    /\ [](correlationFactors # << >> =>
            /\ Len(correlationFactors) = 4
            /\ {Identity(correlationFactors[k]) : k \in 1 .. 4} = ConfiguredIdentities
            /\ FactorIdsOf(correlationFactors) = {"pitch", "rotor", "generator", "windSpeed"})
    /\ [][ ticks' = ticks + 1 =>
             /\ Len(correlationFactors') = Len(correlationFactors)
             /\ \A id \in FactorIdsOf(correlationFactors) :
                   Identity(FactorOf(correlationFactors', id))
                     = Identity(FactorOf(correlationFactors, id)) ]_vars

\* Two callbacks on the critical unit, after which the factors stand in
\* another order than at initialization.
C28_Witness ==
    /\ currentTime = 2
    /\ FactorsUnit = 6
    /\ Len(correlationFactors) = 4
    /\ IdsInOrder(correlationFactors) # <<"pitch", "rotor", "generator", "windSpeed">>

----------------------------------------------------------------------------
(* Claims about the interval timer, under Spec and SpecLive. *)

\* C29: at every moment at most one 5-second interval is armed; the commit
\* after every callback and after every unit change clears the previous
\* interval before arming the next one, and one expiry advances the factor
\* set exactly once: currentTime by one and every history by one sample.
C29_OneTimer ==
    /\ [](/\ Cardinality(timers) <= 1
          /\ timers # {} => timers = {effTimer})
    /\ [][ ( /\ phase = "effects"
             /\ effDeps.mounted
             /\ \/ effDeps.selectedUnitId # view.selectedUnitId
                \/ effDeps.currentTime # view.currentTime )
           => /\ timers' = { [ armed |-> TRUE,
                               selectedUnitId |-> view.selectedUnitId,
                               currentTime |-> view.currentTime ] }
              /\ timers' \cap timers = {} ]_vars
    /\ [][ ticks' = ticks + 1 =>
             /\ currentTime' = currentTime + 1
             /\ timers' = timers
             /\ \A id \in FactorIdsOf(correlationFactors) :
                   Advanced(FactorOf(correlationFactors, id).history,
                            FactorOf(correlationFactors', id).history, clock') ]_vars

\* Two callbacks and a unit change have happened and one interval is armed.
C29_Witness ==
    /\ ticks = 2
    /\ selects = 1
    /\ phase = "idle"
    /\ Cardinality(timers) = 1
    /\ timers = {effTimer}

\* C30: once the page is mounted, and with no further unit selection, an
\* interval callback eventually advances the factor set, and after each
\* callback the interval is armed again so that the next callback follows
\* (for every count below MaxTicks); the interval is never left cancelled.
C30_TicksKeepOccurring ==
    /\ \A n \in 0 .. MaxTicks - 1 : (isMounted /\ ticks = n) ~> (ticks = n + 1)
    /\ (timers = {}) ~> (timers # {})
    /\ [](isMounted /\ phase = "idle" => timers # {})

\* Every callback the bound allows has run without a unit selection and the
\* interval is armed again.
C30_Witness ==
    /\ isMounted
    /\ ticks = MaxTicks
    /\ selects = 0
    /\ phase = "idle"
    /\ timers = {[armed |-> TRUE, selectedUnitId |-> 1, currentTime |-> MaxTicks]}

=============================================================================
